---- MODULE Spec2Model ----
(***************************************************************************)
(* Model of src/src/checksums_files.py: discovery of MD5.txt manifests,    *)
(* their concurrent verification on a ThreadPoolExecutor, and the logging  *)
(* of the outcome by the thread that iterates as_completed.                *)
(*                                                                         *)
(* Strings are sequences of atoms.  The separator "/" and the whitespace   *)
(* characters are atoms of their own; every other atom stands for a run of *)
(* characters that contains neither (a name, a digest, a message part).    *)
(***************************************************************************)
EXTENDS Integers, Sequences, FiniteSets, TLC

\* Longest manifest (in lines) of the explored trees.
MaxLines == 2

-----------------------------------------------------------------------------
(* Strings                                                                 *)

sep == "/"
whitespace == {" ", "\t", "\n"}

RECURSIVE str_strip_left(_)
str_strip_left(s) ==
    IF s # <<>> /\ Head(s) \in whitespace THEN str_strip_left(Tail(s)) ELSE s

RECURSIVE str_strip_right(_)
str_strip_right(s) ==
    IF s # <<>> /\ s[Len(s)] \in whitespace
    THEN str_strip_right(SubSeq(s, 1, Len(s) - 1)) ELSE s

\* str.strip(): leading and trailing whitespace removed.
str_strip(s) == str_strip_right(str_strip_left(s))

\* str.split() without a separator: the maximal runs of non-whitespace.
\* cur is the run being read, acc the runs already closed.
RECURSIVE split_from(_, _, _)
split_from(s, cur, acc) ==
    IF s = <<>>
    THEN IF cur = <<>> THEN acc ELSE Append(acc, cur)
    ELSE IF Head(s) \in whitespace
         THEN split_from(Tail(s), <<>>, IF cur = <<>> THEN acc ELSE Append(acc, cur))
         ELSE split_from(Tail(s), Append(cur, Head(s)), acc)

str_split(s) == split_from(s, <<>>, <<>>)

\* The digests compared by the program, and the upper-case spelling of one.
MD5_EMPTY == "d41d8cd98f00b204e9800998ecf8427e"
MD5_EMPTY_UPPER == "D41D8CD98F00B204E9800998ECF8427E"
MD5_X == "9dd4e461268c8034f5c8564e155c67a6"

\* str.lower() on the atoms of a digest token.
atom_lower(a) == IF a = MD5_EMPTY_UPPER THEN MD5_EMPTY ELSE a
str_lower(s) == [i \in 1..Len(s) |-> atom_lower(s[i])]

\* s contains t as a contiguous substring.
Contains(s, t) ==
    \E i \in 1..(Len(s) - Len(t) + 1) : SubSeq(s, i, i + Len(t) - 1) = t

-----------------------------------------------------------------------------
(* posixpath                                                               *)

\* os.path.join(a, b): a component that starts with the separator discards
\* what precedes it.
os_path_join(a, b) ==
    IF b # <<>> /\ b[1] = sep THEN b
    ELSE IF a = <<>> \/ a[Len(a)] = sep THEN a \o b
    ELSE a \o <<sep>> \o b

\* str.rfind(sep) + 1: the position of the last separator, 0 when there is none.
rfind_sep(p) ==
    LET hits == {i \in 1..Len(p) : p[i] = sep}
    IN  IF hits = {} THEN 0 ELSE CHOOSE i \in hits : \A k \in hits : k <= i

RECURSIVE rstrip_sep(_)
rstrip_sep(p) ==
    IF p # <<>> /\ p[Len(p)] = sep THEN rstrip_sep(SubSeq(p, 1, Len(p) - 1)) ELSE p

\* os.path.dirname(p)
os_path_dirname(p) ==
    LET head == SubSeq(p, 1, rfind_sep(p))
    IN  IF head # <<>> /\ (\E k \in 1..Len(head) : head[k] # sep)
        THEN rstrip_sep(head) ELSE head

-----------------------------------------------------------------------------
(* The directory tree                                                      *)

VARIABLES
    fs,                  \* the tree: path |-> node; a path outside DOMAIN does not exist
    max_workers,         \* check_md5_files' max_workers argument
    pc,                  \* where check_md5_files is: walk, submit, collect, done
    md5_files,           \* the list built by the walk
    futures,             \* future_to_md5_file with each future's job state
    work_queue,          \* the executor's queue of futures not yet started
    finished,            \* as_completed: futures found finished when it was called
    waiter,              \* as_completed: futures finished since, in completion order
    yielded,             \* futures as_completed has handed to the loop body
    log                  \* the records emitted through logging, oldest first

vars == <<fs, max_workers, pc, md5_files, futures, work_queue, finished, waiter,
          yielded, log>>

Dir(names) ==
    [kind |-> "dir", entries |-> names, readable |-> TRUE, lines |-> <<>>, data |-> ""]
DataFile(bytes, mode) ==
    [kind |-> "file", entries |-> <<>>, readable |-> mode, lines |-> <<>>, data |-> bytes]
TextFile(text, mode) ==
    [kind |-> "file", entries |-> <<>>, readable |-> mode, lines |-> text, data |-> "text"]

\* Manifest lines, as the file iterator yields them (newline included).
LineOk       == <<MD5_EMPTY, " ", "empty.txt", "\n">>
LineMismatch == <<MD5_X, " ", "empty.txt", "\n">>
LineUpper    == <<MD5_EMPTY_UPPER, " ", "empty.txt", "\n">>
LineMissing  == <<MD5_EMPTY, " ", "missing.bin", "\n">>
LineSecret   == <<MD5_EMPTY, " ", "secret.bin", "\n">>
LineSubdir   == <<MD5_EMPTY, " ", "sub", "\n">>
LineAbsolute == <<MD5_X, "\t", sep, "abs.bin", "\n">>
LineOneToken == <<"abc123", "\n">>
LineBlank    == <<"\n">>
LineSpaced   == <<" ", MD5_EMPTY, " ", "my", " ", "file.txt", "\n">>

Lines1 == {LineOk, LineMismatch, LineUpper, LineMissing, LineSecret, LineSubdir,
           LineAbsolute, LineOneToken, LineBlank, LineSpaced}
Lines2 == {LineOk, LineOneToken}

SeqUpTo(S, n) == UNION {[1..k -> S] : k \in 0..n}

root_dir == <<"r">>
Manifest1 == <<"r", sep, "d1", sep, "MD5.txt">>
Manifest2 == <<"r", sep, "d2", sep, "deep", sep, "MD5.txt">>

\* A tree: r/d1/MD5.txt holds text1; r/d2/deep holds a file called name2 with
\* text2 and permission mode2.  Everything else is the same in every tree.
Tree(text1, name2, text2, mode2) ==
    (root_dir :> Dir(<<"MD5.txt.bak", "d1", "d2">>))
 @@ (<<"r", sep, "MD5.txt.bak">> :> TextFile(<<LineOneToken>>, TRUE))
 @@ (<<"r", sep, "d1">> :> Dir(<<"MD5.txt", "empty.txt", "secret.bin", "sub">>))
 @@ (Manifest1 :> TextFile(text1, TRUE))
 @@ (<<"r", sep, "d1", sep, "empty.txt">> :> DataFile("", TRUE))
 @@ (<<"r", sep, "d1", sep, "secret.bin">> :> DataFile("", FALSE))
 @@ (<<"r", sep, "d1", sep, "sub">> :> Dir(<<>>))
 @@ (<<"r", sep, "d2">> :> Dir(<<"deep">>))
 @@ (<<"r", sep, "d2", sep, "deep">> :> Dir(<<name2, "empty.txt">>))
 @@ (<<"r", sep, "d2", sep, "deep", sep, name2>> :> TextFile(text2, mode2))
 @@ (<<"r", sep, "d2", sep, "deep", sep, "empty.txt">> :> DataFile("", TRUE))
 @@ (<<sep, "abs.bin">> :> DataFile("x", TRUE))
 @@ (<<sep, "MD5.txt">> :> TextFile(<<LineOk>>, TRUE))

\* What r/d2/deep holds: a file that is no manifest, an unreadable manifest, or a
\* readable manifest of one line.
Second ==
    {<<"md5.txt", <<LineOk>>, TRUE>>, <<"MD5.txt", <<LineOk>>, FALSE>>}
    \cup {<<"MD5.txt", <<line>>, TRUE>> : line \in Lines2}

Trees ==
    {Tree(t1, s[1], s[2], s[3]) : t1 \in SeqUpTo(Lines1, MaxLines), s \in Second}

\* The values of --workers of the explored runs.
WorkerCounts == {1, 8}

os_path_exists(p) == p \in DOMAIN fs

\* os.walk(top), top-down: (dirpath, filenames) of top, then of each
\* subdirectory in listing order.
RECURSIVE os_walk(_)
RECURSIVE walk_dirs(_, _)
os_walk(top) ==
    LET names   == fs[top].entries
        is_dir(n) == fs[os_path_join(top, <<n>>)].kind = "dir"
        is_file(n) == ~is_dir(n)
    IN  <<[subdir |-> top, files |-> SelectSeq(names, is_file)]>>
        \o walk_dirs(top, SelectSeq(names, is_dir))
walk_dirs(top, dirs) ==
    IF dirs = <<>> THEN <<>>
    ELSE os_walk(os_path_join(top, <<Head(dirs)>>)) \o walk_dirs(top, Tail(dirs))

-----------------------------------------------------------------------------
(* checksums_files.py: the functions                                       *)

Returns(v) == [raised |-> FALSE, exc |-> <<>>, value |-> v]
Raises(msg) == [raised |-> TRUE, exc |-> msg, value |-> <<>>]

\* str() of the OSError that open() raises on path p.
PermissionError(p) == <<"[Errno 13] Permission denied: '">> \o p \o <<"'">>
IsADirectoryError(p) == <<"[Errno 21] Is a directory: '">> \o p \o <<"'">>
FileNotFoundError(p) == <<"[Errno 2] No such file or directory: '">> \o p \o <<"'">>

\* open(p): whether it succeeds, and the exception when it does not.
open(p) ==
    IF ~os_path_exists(p) THEN Raises(FileNotFoundError(p))
    ELSE IF fs[p].kind = "dir" THEN Raises(IsADirectoryError(p))
    ELSE IF ~fs[p].readable THEN Raises(PermissionError(p))
    ELSE Returns(p)

\* hashlib.md5(bytes).hexdigest() for the file contents of the trees.
hexdigest(bytes) == IF bytes = "" THEN <<MD5_EMPTY>> ELSE <<MD5_X>>

\* md5sum(filename): the lower-case hex digest, or the exception of open().
md5sum(filename) ==
    IF open(filename).raised THEN open(filename)
    ELSE Returns(hexdigest(fs[filename].data))

\* verify_md5 with a comparison that ignores letter case.
verify_md5_ignore_case(file_path, expected_md5) ==
    IF md5sum(file_path).raised THEN md5sum(file_path)
    ELSE Returns(str_lower(md5sum(file_path).value) = str_lower(expected_md5))

\* verify_md5(file_path, expected_md5)
verify_md5(file_path, expected_md5) ==
    IF md5sum(file_path).raised THEN md5sum(file_path)
    ELSE Returns(md5sum(file_path).value = expected_md5)

\* str() of the ValueError of unpacking n values into two names.
ValueError(n) ==
    IF n > 2 THEN <<"too many values to unpack (expected 2)">>
    ELSE <<"not enough values to unpack (expected 2, got ", ToString(n), ")">>

\* The path that line 27 computes for a filename token.
resolve(md5_file_path, filename) ==
    os_path_join(os_path_dirname(md5_file_path), filename)

\* The loop body without the existence check.
calls_verify_unchecked(file_path) == TRUE

\* Whether the body of the loop calls verify_md5 for this path (line 28).
calls_verify(file_path) == os_path_exists(file_path)

\* One iteration of the loop of process_md5_file (lines 26-34): the pair
\* appended to results, or the exception that leaves the function.
process_line(md5_file_path, line) ==
    LET tokens == str_split(str_strip(line))
    IN  IF Len(tokens) # 2 THEN Raises(ValueError(Len(tokens)))
        ELSE LET expected_md5 == tokens[1]
                 file_path == resolve(md5_file_path, tokens[2])
             IN  IF calls_verify(file_path)
                 THEN IF verify_md5(file_path, expected_md5).raised
                      THEN verify_md5(file_path, expected_md5)
                      ELSE IF verify_md5(file_path, expected_md5).value
                           THEN Returns(<<file_path, "OK">>)
                           ELSE Returns(<<file_path, "MD5 mismatch">>)
                 ELSE Returns(<<file_path, "File not found">>)

\* process_md5_file run to its end on the text that remains, results being
\* what the lines before have appended.
RECURSIVE process_lines(_, _, _)
process_lines(md5_file_path, text, results) ==
    IF text = <<>> THEN Returns(results)
    ELSE IF process_line(md5_file_path, Head(text)).raised
         THEN process_line(md5_file_path, Head(text))
         ELSE process_lines(md5_file_path, Tail(text),
                            Append(results, process_line(md5_file_path, Head(text)).value))

\* process_md5_file(md5_file_path) as a whole.
process_md5_file(md5_file_path) ==
    IF open(md5_file_path).raised THEN open(md5_file_path)
    ELSE process_lines(md5_file_path, fs[md5_file_path].lines, <<>>)

\* log_results with the error branch taken for OK and the info branch otherwise.
result_record_inverted(future, pair) ==
    IF pair[2] # "OK"
    THEN [level |-> "INFO", msg |-> <<"OK: ">> \o pair[1],
          future |-> future, result |-> pair]
    ELSE [level |-> "ERROR", msg |-> <<"FAIL: ">> \o pair[1] \o <<" (", pair[2], ")">>,
          future |-> future, result |-> pair]

\* The record log_results emits for one (file_path, status) pair; future is
\* the future whose result is being logged (bookkeeping, not part of the text).
result_record(future, pair) ==
    IF pair[2] = "OK"
    THEN [level |-> "INFO", msg |-> <<"OK: ">> \o pair[1],
          future |-> future, result |-> pair]
    ELSE [level |-> "ERROR", msg |-> <<"FAIL: ">> \o pair[1] \o <<" (", pair[2], ")">>,
          future |-> future, result |-> pair]

\* log_results walking the list from its end.
log_results_reversed(future, results) ==
    [i \in 1..Len(results) |-> result_record(future, results[Len(results) + 1 - i])]

\* log_results with a loop that stops one pair early.
log_results_short(future, results) ==
    [i \in 1..(Len(results) - 1) |-> result_record(future, results[i])]

\* log_results(results): one record per pair, in order.
log_results(future, results) ==
    [i \in 1..Len(results) |-> result_record(future, results[i])]

\* The record of the except clause (line 60).
exception_record(future, exc) ==
    [level |-> "ERROR", msg |-> <<"Exception occurred: ">> \o exc,
     future |-> future, result |-> <<>>]

-----------------------------------------------------------------------------
(* check_md5_files: the walk, the executor and the as_completed loop       *)

\* The test of line 50 with a comparison that ignores letter case.
is_manifest_any_case(file) == file \in {"MD5.txt", "md5.txt"}

\* Line 50: the file name is exactly MD5.txt.
is_manifest(file) == file = "MD5.txt"

\* Lines 49-51: the manifests among the files of one directory.
RECURSIVE manifests_in(_, _)
manifests_in(subdir, files) ==
    IF files = <<>> THEN <<>>
    ELSE (IF is_manifest(Head(files))
          THEN <<os_path_join(subdir, <<Head(files)>>)>> ELSE <<>>)
         \o manifests_in(subdir, Tail(files))

\* Lines 47-51 over the whole walk.
RECURSIVE collect_md5_files(_)
collect_md5_files(walk) ==
    IF walk = <<>> THEN <<>>
    ELSE manifests_in(Head(walk).subdir, Head(walk).files)
         \o collect_md5_files(Tail(walk))

\* A future as executor.submit creates it, with the locals of its call of
\* process_md5_file.  Three fields are bookkeeping: opened, the paths the job
\* handed to open(); ran_on, the worker threads that took the job off the
\* queue, in order; resolved, what the loop of lines 55-60 did with the future
\* each time as_completed yielded it ("logged" or "failed").
NewFuture(md5_file) ==
    [md5_file |-> md5_file, state |-> "PENDING", pos |-> 0, results |-> <<>>,
     cur |-> <<>>, outcome |-> Returns(<<>>), opened |-> {}, ran_on |-> <<>>,
     resolved |-> <<>>]

Futures == 1..Len(futures)
Running == {j \in Futures : futures[j].state = "RUNNING"}
Done(j) == futures[j].state = "FINISHED"

Min(a, b) == IF a < b THEN a ELSE b

\* An executor that starts a thread for every submit, whatever max_workers.
Threads_unbounded == 1..Len(futures)

\* The worker threads of the executor: submit starts at most one, and none
\* once there are max_workers of them.
Threads == 1..Min(max_workers, Len(futures))

\* The threads that are inside a job.
Busy == {futures[j].ran_on[Len(futures[j].ran_on)] : j \in Running}

\* A queue whose get() leaves the item in place.
dequeue_keep(queue) == queue

\* work_queue.get(): the oldest item leaves the queue.
dequeue(queue) == Tail(queue)

\* A future that finishes without telling the waiter.
notified_lost(w, j) == w

\* The waiter list after the future j has finished: as_completed's waiter,
\* installed by its call, is told; before the call there is none.
notified(w, j) == IF pc = "collect" THEN Append(w, j) ELSE w

\* A handler that writes the new records ahead of the last one written.
emit_unordered(old, records) ==
    IF old = <<>> THEN records
    ELSE SubSeq(old, 1, Len(old) - 1) \o records \o <<old[Len(old)]>>

\* logging: the records of one call after another are appended to the sinks
\* in the order of the calls.
emit(old, records) == old \o records

\* process_md5_file catching the exception and returning what it has.
propagate_partial(results, exc) == Returns(results)

\* What leaves process_md5_file when exc is raised in it: the exception;
\* the local list results is dropped with the frame.
propagate(results, exc) == Raises(exc)

\* as_completed overlooking the futures that finished before the call.
already_finished_none(fut) == {}

\* as_completed's first look at the futures: those already finished.
already_finished(fut) == {j \in 1..Len(fut) : fut[j].state = "FINISHED"}

\* The loop without its try: the exception leaves check_md5_files.
after_except_leave == "done"

\* Where check_md5_files is after the except clause has logged: in the loop.
after_except == "collect"

Init ==
    /\ fs \in Trees
    /\ max_workers \in WorkerCounts
    /\ pc = "walk"
    /\ md5_files = <<>>
    /\ futures = <<>>
    /\ work_queue = <<>>
    /\ finished = {}
    /\ waiter = <<>>
    /\ yielded = {}
    /\ log = <<>>

\* Lines 47-51.
Walk ==
    /\ pc = "walk"
    /\ md5_files' = collect_md5_files(os_walk(root_dir))
    /\ pc' = "submit"
    /\ UNCHANGED <<fs, max_workers, futures, work_queue, finished, waiter, yielded, log>>

\* Line 54: executor.submit for the next manifest of the list.
Submit ==
    /\ pc = "submit"
    /\ Len(futures) < Len(md5_files)
    /\ futures' = Append(futures, NewFuture(md5_files[Len(futures) + 1]))
    /\ work_queue' = Append(work_queue, Len(futures) + 1)
    /\ UNCHANGED <<fs, max_workers, pc, md5_files, finished, waiter, yielded, log>>

\* Line 55: the call of as_completed, once every manifest is submitted.
AsCompleted ==
    /\ pc = "submit"
    /\ Len(futures) = Len(md5_files)
    /\ finished' = already_finished(futures)
    /\ pc' = "collect"
    /\ UNCHANGED <<fs, max_workers, md5_files, futures, work_queue, waiter, yielded, log>>

\* The future j finishes with an outcome; a waiter installed by as_completed
\* is told.
Finish(j, outcome) ==
    /\ futures' = [futures EXCEPT ![j].state = "FINISHED", ![j].outcome = outcome,
                                  ![j].cur = <<>>]
    /\ waiter' = notified(waiter, j)

\* An idle worker thread takes the oldest queued future and enters
\* process_md5_file (lines 23-24): the manifest is opened.
Start(j) ==
    /\ work_queue # <<>>
    /\ j = Head(work_queue)
    /\ work_queue' = dequeue(work_queue)
    /\ \E t \in Threads \ Busy :
          LET m == futures[j].md5_file
              on == Append(futures[j].ran_on, t)
          IN  IF open(m).raised
              THEN /\ futures' = [futures EXCEPT ![j].state = "FINISHED",
                                      ![j].outcome = propagate(<<>>, open(m).exc),
                                      ![j].opened = {m}, ![j].ran_on = on]
                   /\ waiter' = notified(waiter, j)
              ELSE /\ futures' = [futures EXCEPT ![j].state = "RUNNING",
                                      ![j].opened = {m}, ![j].ran_on = on]
                   /\ waiter' = waiter
    /\ UNCHANGED <<fs, max_workers, pc, md5_files, finished, yielded, log>>

\* Lines 25-28 and 33-34 for the next line, up to the open() of md5sum
\* (line 12): a line that does not unpack or a target that does not open ends
\* the job; a missing target is recorded; an opened target stays open.
ReadLine(j) ==
    /\ j \in Running
    /\ futures[j].cur = <<>>
    /\ futures[j].pos < Len(fs[futures[j].md5_file].lines)
    /\ LET f == futures[j]
           line == fs[f.md5_file].lines[f.pos + 1]
           tokens == str_split(str_strip(line))
           file_path == resolve(f.md5_file, tokens[2])
           r == process_line(f.md5_file, line)
       IN  IF Len(tokens) # 2
           THEN /\ futures' = [futures EXCEPT ![j].state = "FINISHED", ![j].cur = <<>>,
                                   ![j].outcome = propagate(f.results, r.exc)]
                /\ waiter' = notified(waiter, j)
           ELSE IF ~calls_verify(file_path)
           THEN /\ futures' = [futures EXCEPT ![j].results = Append(f.results, r.value),
                                              ![j].pos = f.pos + 1]
                /\ waiter' = waiter
           ELSE IF r.raised
           THEN /\ futures' = [futures EXCEPT ![j].state = "FINISHED", ![j].cur = <<>>,
                                   ![j].outcome = propagate(f.results, r.exc),
                                   ![j].opened = f.opened \cup {file_path}]
                /\ waiter' = notified(waiter, j)
           ELSE /\ futures' = [futures EXCEPT ![j].cur = file_path,
                                   ![j].opened = f.opened \cup {file_path}]
                /\ waiter' = waiter
    /\ UNCHANGED <<fs, max_workers, pc, md5_files, work_queue, finished, yielded, log>>

\* Lines 13-15, 19 and 29-32: the open target is read and closed, its digest
\* compared, the pair appended.
Digest(j) ==
    /\ j \in Running
    /\ futures[j].cur # <<>>
    /\ LET f == futures[j]
           r == process_line(f.md5_file, fs[f.md5_file].lines[f.pos + 1])
       IN  futures' = [futures EXCEPT ![j].results = Append(f.results, r.value),
                                      ![j].cur = <<>>, ![j].pos = f.pos + 1]
    /\ UNCHANGED <<fs, max_workers, pc, md5_files, work_queue, finished, waiter,
                   yielded, log>>

\* Line 35: the manifest is exhausted and closed, results is returned.
Return(j) ==
    /\ j \in Running
    /\ futures[j].cur = <<>>
    /\ futures[j].pos = Len(fs[futures[j].md5_file].lines)
    /\ Finish(j, Returns(futures[j].results))
    /\ UNCHANGED <<fs, max_workers, pc, md5_files, work_queue, finished, yielded, log>>

\* A loop over the futures in submission order, each waited for in turn.
Yields_in_submission_order(j) ==
    /\ pc = "collect"
    /\ j \notin yielded
    /\ Done(j)
    /\ \A i \in 1..(j - 1) : i \in yielded

\* as_completed yields j next: one of the futures it found finished, in no
\* particular order, and after those the futures of the waiter, oldest first.
Yields(j) ==
    /\ pc = "collect"
    /\ j \notin yielded
    /\ IF finished \ yielded # {} THEN j \in finished
       ELSE waiter # <<>> /\ j = Head(waiter)

Take(j) ==
    /\ yielded' = yielded \cup {j}
    /\ waiter' = IF j \in finished THEN waiter ELSE Tail(waiter)

\* Lines 56-58: the future returned; its results are logged.
LogResults(j) ==
    /\ Yields(j)
    /\ ~futures[j].outcome.raised
    /\ Take(j)
    /\ log' = emit(log, log_results(j, futures[j].outcome.value))
    /\ futures' = [futures EXCEPT ![j].resolved = Append(@, "logged")]
    /\ UNCHANGED <<fs, max_workers, pc, md5_files, work_queue, finished>>

\* Lines 56-57 and 59-60: future.result() raises; the exception is logged.
LogException(j) ==
    /\ Yields(j)
    /\ futures[j].outcome.raised
    /\ Take(j)
    /\ log' = emit(log, <<exception_record(j, futures[j].outcome.exc)>>)
    /\ futures' = [futures EXCEPT ![j].resolved = Append(@, "failed")]
    /\ pc' = after_except
    /\ UNCHANGED <<fs, max_workers, md5_files, work_queue, finished>>

\* as_completed is exhausted and the with block left: the executor is shut
\* down, which waits for every job.
Exit ==
    /\ pc = "collect"
    /\ finished \subseteq yielded
    /\ waiter = <<>>
    /\ \A j \in Futures : Done(j)
    /\ pc' = "done"
    /\ UNCHANGED <<fs, max_workers, md5_files, futures, work_queue, finished, waiter,
                   yielded, log>>

Next ==
    \/ Walk
    \/ Submit
    \/ AsCompleted
    \/ \E j \in Futures : Start(j)
    \/ \E j \in Futures : ReadLine(j)
    \/ \E j \in Futures : Digest(j)
    \/ \E j \in Futures : Return(j)
    \/ \E j \in Futures : LogResults(j)
    \/ \E j \in Futures : LogException(j)
    \/ Exit

Spec == Init /\ [][Next]_vars

\* The runs over the trees in which every line of r/d1/MD5.txt is an entry
\* with a mismatching or a missing target (r/d2/deep is as in every tree, so a
\* job can still fail), with the threads of the process scheduled: a run does
\* not stop while the main thread or a worker has a step to take.
LinesFair == {LineMismatch, LineMissing}

InitFair ==
    /\ Init
    /\ \A i \in 1..Len(fs[Manifest1].lines) : fs[Manifest1].lines[i] \in LinesFair

FairSpec == InitFair /\ [][Next]_vars /\ WF_vars(Next)

\* The runs over the trees in which r/d1/MD5.txt has no blank line and names
\* no target that exists and cannot be opened: a job of such a run can only
\* fail on a line with the wrong number of tokens or on an unreadable manifest.
InitParse ==
    /\ Init
    /\ \A i \in 1..Len(fs[Manifest1].lines) :
          fs[Manifest1].lines[i] \notin {LineSecret, LineSubdir, LineBlank}

SpecParse == InitParse /\ [][Next]_vars

-----------------------------------------------------------------------------
(* Vocabulary of the properties                                            *)

Tokens(line) == str_split(str_strip(line))
WellFormed(line) == Len(Tokens(line)) = 2
Blank(line) == \A i \in 1..Len(line) : line[i] \in whitespace

Text(j) == fs[futures[j].md5_file].lines
Readable(j) == ~open(futures[j].md5_file).raised
Failed(j) == Done(j) /\ futures[j].outcome.raised

\* The resolved path of the entry on line i of the manifest of j.
EntryPath(j, i) == resolve(futures[j].md5_file, Tokens(Text(j)[i])[2])

\* The records of the log that come from the future j, oldest first.
IsOf(j, rec) == rec.future = j
RecordsOf(j) == LET mine(rec) == IsOf(j, rec) IN SelectSeq(log, mine)
ResultRecordsOf(j) == LET mine(rec) == IsOf(j, rec) /\ rec.result # <<>>
                      IN  SelectSeq(log, mine)
FailureRecordsOf(j) == LET mine(rec) == IsOf(j, rec) /\ rec.result = <<>>
                       IN  SelectSeq(log, mine)

\* The records a run emits for the manifest of j when it is the only one.
Alone(j) ==
    LET r == process_md5_file(futures[j].md5_file)
    IN  IF r.raised THEN <<exception_record(j, r.exc)>> ELSE log_results(j, r.value)

-----------------------------------------------------------------------------
(* Properties                                                              *)

\* C1: failure isolation.  At the end of a run in which the job of one
\* manifest raised, every other manifest has been processed to its end and
\* its records are exactly those it yields on its own, for every worker
\* count and interleaving; no job is left unfinished.
C1_FailureIsolation ==
    pc = "done" =>
        \A j \in Futures : Failed(j) =>
            \A k \in Futures \ {j} : Done(k) /\ RecordsOf(k) = Alone(k)

C1_Witness ==
    /\ pc = "done"
    /\ \E j, k \in Futures :
          /\ Failed(j)
          /\ ~Failed(k)
          /\ Len(ResultRecordsOf(k)) > 0
          /\ j < k

\* C2: the resolved path of every result lies under the directory of the
\* manifest (the directory, the separator, the filename token) and is never
\* the filename token itself.
C2_ResolvedUnderManifestDir ==
    \A j \in Futures : \A i \in 1..Len(futures[j].results) :
        LET token == Tokens(Text(j)[i])[2]
            path == futures[j].results[i][1]
        IN  /\ path = os_path_dirname(futures[j].md5_file) \o <<sep>> \o token
            /\ path # token

\* C3: a target that exists but cannot be opened gives the entry the outcome
\* File not found and raises nothing: the job goes on to the next line.
C3_UnreadableTargetIsLocal ==
    \A j \in Futures : \A i \in 1..Len(Text(j)) :
        ( /\ Done(j)
          /\ Readable(j)
          /\ \A n \in 1..i : WellFormed(Text(j)[n])
          /\ os_path_exists(EntryPath(j, i))
          /\ open(EntryPath(j, i)).raised )
        => /\ futures[j].pos >= i
           /\ futures[j].results[i] = <<EntryPath(j, i), "File not found">>

\* C4: every failed job has exactly one failure record, an ERROR record whose
\* message contains the path of the manifest that failed.
C4_FailureNamesManifest ==
    pc = "done" =>
        \A j \in Futures : Failed(j) =>
            /\ Len(FailureRecordsOf(j)) = 1
            /\ FailureRecordsOf(j)[1].level = "ERROR"
            /\ Contains(FailureRecordsOf(j)[1].msg, futures[j].md5_file)

\* C5: for an entry whose target exists and can be read, the status is OK
\* exactly when the digest of the target's bytes is the expected token,
\* character for character, and MD5 mismatch otherwise.
C5_Classification ==
    \A j \in Futures : \A i \in 1..Len(futures[j].results) :
        LET path == EntryPath(j, i)
            expected_md5 == Tokens(Text(j)[i])[1]
        IN  (os_path_exists(path) /\ ~open(path).raised) =>
                futures[j].results[i] =
                    <<path, IF hexdigest(fs[path].data) = expected_md5
                            THEN "OK" ELSE "MD5 mismatch">>

C5_Witness ==
    \E j \in Futures :
        /\ Len(futures[j].results) = 2
        /\ Text(j) = <<LineUpper, LineOk>>
        /\ futures[j].results[1][2] = "MD5 mismatch"
        /\ futures[j].results[2][2] = "OK"

\* The lines of the manifest of j whose target the job has looked up.
LookedUp(j) ==
    LET f == futures[j]
        n == Len(Text(j))
        at_next == /\ f.pos < n
                   /\ WellFormed(Text(j)[f.pos + 1])
                   /\ \/ f.cur # <<>>
                      \/ Failed(j)
    IN  IF Readable(j) /\ at_next THEN 1..(f.pos + 1) ELSE 1..f.pos

\* C6: an entry whose resolved path does not exist gets File not found and
\* its path is never opened; what a job has opened is the manifest and the
\* resolved paths that exist, no other file.
C6_MissingNeverOpened ==
    \A j \in Futures :
        /\ \A i \in 1..Len(futures[j].results) :
              ~os_path_exists(EntryPath(j, i)) =>
                  /\ futures[j].results[i] = <<EntryPath(j, i), "File not found">>
                  /\ EntryPath(j, i) \notin futures[j].opened
        /\ futures[j].state # "PENDING" =>
              futures[j].opened =
                  {futures[j].md5_file}
                  \cup {EntryPath(j, i) : i \in {n \in LookedUp(j) :
                                                    os_path_exists(EntryPath(j, n))}}

C6_Witness ==
    \E j \in Futures :
        /\ Done(j)
        /\ Text(j) = <<LineMissing, LineOk>>
        /\ Len(futures[j].outcome.value) = 2
        /\ Cardinality(futures[j].opened) = 2

\* The lines of the manifest of j that unpack into two tokens.
WellFormedLines(j) == {i \in 1..Len(Text(j)) : WellFormed(Text(j)[i])}
Malformed(j) == {i \in 1..Len(Text(j)) : ~WellFormed(Text(j)[i])}
FirstMalformed(j) == CHOOSE i \in Malformed(j) : \A n \in Malformed(j) : i <= n

\* C7 as stated: at the end of a run every well-formed entry of every
\* readable manifest has exactly one result record.
C7_OneResultPerWellFormedEntry ==
    pc = "done" =>
        \A j \in Futures : Readable(j) =>
            /\ Len(ResultRecordsOf(j)) = Cardinality(WellFormedLines(j))
            /\ \A i \in WellFormedLines(j) :
                  \E n \in 1..Len(ResultRecordsOf(j)) :
                      ResultRecordsOf(j)[n].result[1] = EntryPath(j, i)

\* C7 amended: at the end of a run, a manifest whose job returned has only
\* well-formed lines and exactly one result record per line, the n-th record
\* for the n-th line; a manifest whose job raised has no result record.
C7_OneResultPerEntryOfReturnedJob ==
    pc = "done" =>
        \A j \in Futures :
            /\ ~Failed(j) =>
                  /\ Malformed(j) = {}
                  /\ Len(ResultRecordsOf(j)) = Len(Text(j))
                  /\ \A i \in 1..Len(Text(j)) :
                        ResultRecordsOf(j)[i].result[1] = EntryPath(j, i)
            /\ Failed(j) => ResultRecordsOf(j) = <<>>

C7_Witness ==
    /\ pc = "done"
    /\ \E j \in Futures :
          /\ Text(j) = <<LineOk, LineOk>>
          /\ Len(ResultRecordsOf(j)) = 2
    /\ \E k \in Futures : Failed(k)

\* C8: a readable manifest with a malformed line never gets a result record,
\* its job never goes past the first malformed line and opens no target of a
\* later line, and at the end of the run its only record is one failure record.
C8_WholeJobFailure ==
    \A j \in Futures : (Readable(j) /\ Malformed(j) # {}) =>
        /\ futures[j].pos < FirstMalformed(j)
        /\ futures[j].opened \subseteq
              {futures[j].md5_file}
              \cup {EntryPath(j, i) : i \in 1..(FirstMalformed(j) - 1)}
        /\ ResultRecordsOf(j) = <<>>
        /\ pc = "done" =>
              /\ Len(RecordsOf(j)) = 1
              /\ RecordsOf(j)[1].level = "ERROR"
              /\ RecordsOf(j)[1].result = <<>>

C8_Witness ==
    /\ pc = "done"
    /\ \E j \in Futures :
          /\ Text(j) = <<LineOk, LineOneToken>>
          /\ Len(futures[j].results) = 1
          /\ Len(RecordsOf(j)) = 1

\* C9: a blank line is skipped: no job fails on one, and a readable manifest
\* whose lines are all well-formed or blank ends with one result record per
\* line that is not blank.
C9_BlankLinesSkipped ==
    /\ \A j \in Futures :
          (Failed(j) /\ Readable(j)) => ~Blank(Text(j)[futures[j].pos + 1])
    /\ pc = "done" =>
          \A j \in Futures :
              (Readable(j) /\ \A i \in 1..Len(Text(j)) :
                                  WellFormed(Text(j)[i]) \/ Blank(Text(j)[i]))
              => Len(ResultRecordsOf(j)) =
                     Cardinality({i \in 1..Len(Text(j)) : ~Blank(Text(j)[i])})

Range(s) == {s[i] : i \in 1..Len(s)}

\* What a run has reported: the set of (path, status) pairs and the set of
\* manifests with a failure record.
ReportedResults == {rec.result : rec \in {r \in Range(log) : r.result # <<>>}}
ReportedFailures ==
    {futures[rec.future].md5_file : rec \in {r \in Range(log) : r.result = <<>>}}

\* The same two sets, from the tree alone: each manifest of the walk
\* processed by itself.
Discovered == Range(collect_md5_files(os_walk(root_dir)))
TreeResults ==
    UNION {Range(process_md5_file(m).value) :
              m \in {d \in Discovered : ~process_md5_file(d).raised}}
TreeFailures == {m \in Discovered : process_md5_file(m).raised}

\* C10: the sets a finished run has reported are determined by the tree: they
\* are the same for worker count 1 and worker count 8 and every interleaving.
C10_WorkerCountIndependent ==
    pc = "done" =>
        /\ ReportedResults = TreeResults
        /\ ReportedFailures = TreeFailures

C10_Witness ==
    /\ pc = "done"
    /\ max_workers = 8
    /\ Len(futures) = 2
    /\ log # <<>>
    /\ log[1].future = 2
    /\ ReportedResults # {}
    /\ ReportedFailures # {}

\* Every discovered manifest has been submitted, has run to its end and has
\* been handed to the loop body.
AllProcessed ==
    /\ Len(futures) = Len(md5_files)
    /\ \A j \in Futures : Done(j) /\ j \in yielded

\* C11: termination.  Every scheduled run reaches the normal return of
\* check_md5_files, and reaches it with every discovered manifest processed to
\* its return or its exception and handled by the loop, whatever the outcomes.
C11_Termination == <>(pc = "done" /\ AllProcessed)

C11_Witness ==
    /\ pc = "done"
    /\ AllProcessed
    /\ \E j, k \in Futures : Failed(j) /\ Len(ResultRecordsOf(k)) = 2
    /\ \E a, b \in 1..Len(log) :
          /\ log[a].result # <<>> /\ log[a].result[2] = "MD5 mismatch"
          /\ log[b].result # <<>> /\ log[b].result[2] = "File not found"

\* The jobs that hold a target file open.
OpenTargets == {j \in Running : futures[j].cur # <<>>}

\* C12: bounded parallelism.  At most max_workers jobs are running at any
\* time, each on a thread of its own among max_workers threads, so at most
\* max_workers manifests and max_workers targets are open; and the thread that
\* took a job is the one that runs it to its end.
C12_BoundedParallelism ==
    /\ [](/\ Cardinality(Running) <= max_workers
          /\ Cardinality(OpenTargets) <= max_workers
          /\ Busy \subseteq 1..max_workers
          /\ Cardinality(Busy) = Cardinality(Running))
    /\ [][\A j \in Futures :
             futures[j].ran_on # <<>> => futures'[j].ran_on = futures[j].ran_on]_vars

C12_Witness ==
    /\ max_workers = 1
    /\ Len(futures) = 2
    /\ work_queue = <<2>>
    /\ futures[1].state = "RUNNING"
    /\ futures[1].cur # <<>>

\* C13: completion-order reporting.  While the loop is collecting, a finished
\* future that has not been handled can be handled at once although a future
\* submitted before it is still pending or running.
C13_NoHeadOfLineBlocking ==
    \A j, k \in Futures :
        (j < k /\ pc = "collect" /\ ~Done(j) /\ Done(k) /\ k \notin yielded)
        => ENABLED (LogResults(k) \/ LogException(k))

C13_Witness ==
    /\ max_workers = 8
    /\ Len(futures) = 2
    /\ futures[1].state = "RUNNING"
    /\ 2 \in yielded
    /\ Len(RecordsOf(2)) = 1
    /\ RecordsOf(1) = <<>>

\* C14: the result records of a manifest are in the order of its lines: the
\* i-th of them is the result of the i-th line.
C14_LineOrder ==
    \A j \in Futures : \A i \in 1..Len(ResultRecordsOf(j)) :
        /\ i <= Len(Text(j))
        /\ ResultRecordsOf(j)[i].result =
               process_line(futures[j].md5_file, Text(j)[i]).value

C14_Witness ==
    /\ pc = "done"
    /\ max_workers = 8
    /\ \E j, k \in Futures :
          /\ Text(j) = <<LineMissing, LineAbsolute>>
          /\ Len(ResultRecordsOf(j)) = 2
          /\ Len(ResultRecordsOf(k)) = 1

Count(seq, x) == Cardinality({i \in 1..Len(seq) : seq[i] = x})
ResultsOf(recs) == [i \in 1..Len(recs) |-> recs[i].result]

\* C15: severity mapping.  A result record is an INFO record with the path
\* when the status is OK, and an ERROR record with the path and the status
\* otherwise; a future whose results were logged has one record for each of
\* its pairs.
C15_SeverityMapping ==
    /\ \A rec \in Range(log) : rec.result # <<>> =>
          /\ Contains(rec.msg, rec.result[1])
          /\ IF rec.result[2] = "OK"
             THEN rec.level = "INFO"
             ELSE rec.level = "ERROR" /\ Contains(rec.msg, <<rec.result[2]>>)
    /\ \A j \in yielded : ~futures[j].outcome.raised =>
          /\ Len(RecordsOf(j)) = Len(futures[j].outcome.value)
          /\ \A pair \in Range(futures[j].outcome.value) :
                Count(ResultsOf(RecordsOf(j)), pair) = Count(futures[j].outcome.value, pair)

C15_Witness ==
    \E a, b, c \in 1..Len(log) :
        /\ log[a].level = "INFO" /\ log[a].result # <<>>
        /\ log[b].level = "ERROR" /\ log[b].result # <<>>
        /\ log[b].result[2] = "MD5 mismatch"
        /\ log[c].level = "ERROR" /\ log[c].result # <<>>
        /\ log[c].result[2] = "File not found"

\* The files of the tree under the root whose name is MD5.txt.
ManifestsOfTree ==
    {p \in DOMAIN fs :
        /\ fs[p].kind = "file"
        /\ p[Len(p)] = "MD5.txt"
        /\ Len(p) > Len(root_dir) + 1
        /\ SubSeq(p, 1, Len(root_dir) + 1) = root_dir \o <<sep>>}

\* C16: discovery and dispatch.  Once the walk is done, md5_files lists the
\* files under the root called exactly MD5.txt, each once, and never changes;
\* the j-th future is for the j-th of them, and when the loop starts there is
\* one future for each.
C16_DiscoveryAndDispatch ==
    /\ [](pc # "walk" =>
             /\ Range(md5_files) = ManifestsOfTree
             /\ Cardinality(Range(md5_files)) = Len(md5_files)
             /\ Len(futures) <= Len(md5_files)
             /\ \A j \in Futures : futures[j].md5_file = md5_files[j]
             /\ pc \in {"collect", "done"} => Len(futures) = Len(md5_files))
    /\ [][pc # "walk" => md5_files' = md5_files]_vars

C16_Witness ==
    /\ pc = "done"
    /\ md5_files = <<Manifest1, Manifest2>>
    /\ Len(futures) = 2
    /\ <<"r", sep, "MD5.txt.bak">> \in DOMAIN fs
    /\ <<sep, "MD5.txt">> \in DOMAIN fs

\* C17: exactly-once resolution.  No future is ever taken by a worker twice or
\* handled by the loop twice; at the end of a run every discovered manifest has
\* one future, which ran on one worker and was handled once: either its whole
\* result list was logged and nothing else, or one failure record was emitted
\* and nothing else.
C17_ExactlyOnce ==
    /\ \A j \in Futures :
          Len(futures[j].ran_on) <= 1 /\ Len(futures[j].resolved) <= 1
    /\ pc = "done" =>
          /\ Len(futures) = Len(md5_files)
          /\ \A j \in Futures :
                /\ Len(futures[j].ran_on) = 1
                /\ Len(futures[j].resolved) = 1
                /\ futures[j].resolved = <<"logged">> =>
                      /\ ~futures[j].outcome.raised
                      /\ RecordsOf(j) = log_results(j, futures[j].outcome.value)
                /\ futures[j].resolved = <<"failed">> =>
                      /\ futures[j].outcome.raised
                      /\ RecordsOf(j) = <<exception_record(j, futures[j].outcome.exc)>>

C17_Witness ==
    /\ pc = "done"
    /\ \E j, k \in Futures :
          /\ futures[j].resolved = <<"logged">>
          /\ Text(j) = <<>>
          /\ futures[k].resolved = <<"failed">>

\* C18: no interleaving.  The records of one manifest are one contiguous
\* block of the log, and the log grows only in a step of the loop of lines
\* 55-60, never in a step of a worker.
C18_ContiguousBlocks ==
    /\ [](\A a, b, c \in 1..Len(log) :
             (a < b /\ b < c /\ log[a].future = log[c].future)
             => log[b].future = log[a].future)
    /\ [][log' # log =>
             /\ pc = "collect"
             /\ yielded' # yielded
             /\ \A j \in Futures :
                   /\ futures'[j].state = futures[j].state
                   /\ futures'[j].pos = futures[j].pos
                   /\ futures'[j].results = futures[j].results]_vars

C18_Witness ==
    /\ max_workers = 8
    /\ Len(log) = 3
    /\ log[1].future = 2
    /\ log[1].result = <<>>
    /\ log[2].future = 1
    /\ log[3].future = 1

====
